---- MODULE Spec2Model ----
(***************************************************************************)
(* Chaos League: the match engine (engine/match.py), the execution guard   *)
(* (engine/bot_runner.py), the RNG stream factory (engine/rng.py), the     *)
(* move resolver (engine/judge.py) and the replay validator                *)
(* (engine/replay_validator.py), driven as tests/test_replay_e2e.py drives *)
(* them: one match in competition mode, then a replay of its round log.    *)
(*                                                                         *)
(* Representation.                                                         *)
(*  - A Move enum member is its auto() value 1..5; its .name is a string.  *)
(*    Python None is 0 where a Move is expected and "None" where a name is *)
(*    expected. 9 stands for a value that is not a Move instance.          *)
(*  - A random.Random stream is [seed, pos]: pos counts the draws taken.   *)
(*    What draw number p of the stream seeded s returns is tape[<<s, p>>], *)
(*    a cell in tenths of the unit interval; the cell is fixed the first   *)
(*    time it is read and every later read of the same <<s, p>> sees it.   *)
(*    rng.random() of a cell c is c/10, rng.choice(xs) is xs[c*len/10].    *)
(*  - safe_play / safe_shadow run the strategy in a multiprocessing        *)
(*    child. The model is of the fork start method (the only one under     *)
(*    which Process(target=<local function>) starts): the child works on   *)
(*    a copy of the bot object and of the stream, so nothing the strategy  *)
(*    does there advances the parent's stream or changes the parent's bot. *)
(***************************************************************************)
EXTENDS Integers, Sequences, FiniteSets, TLC

(* ------------------------------ bounds --------------------------------- *)
\* config.ROUNDS is 10_000; the model runs this many rounds per match.
MaxRounds == 3
\* the calls a unit harness makes of the function it exercises
MaxCalls == 2
\* the rounds of a match run on the tournament's worker pool
MaxPoolRounds == 2
MaxRecords == 2

(* ------------------------------ config.py ------------------------------ *)
COMPETITION == TRUE
ROUNDS == MaxRounds
\* SHADOW_REJECT_PROB = 0.10, in tenths
SHADOW_REJECT_PROB == 1
SEED_SALT == "CHAOS_LEAGUE_2026"
DECEPTION_TOKENS == 50
\* the budgets the matches of the model are run with, in place of 50
TokenBudgets == {0, 2}

(* ------------------------------ judge.py ------------------------------- *)
ROCK == 1
PAPER == 2
SCISSORS == 3
LIZARD == 4
SPOCK == 5
Move == {ROCK, PAPER, SCISSORS, LIZARD, SPOCK}
MOVES == <<ROCK, PAPER, SCISSORS, LIZARD, SPOCK>>
None == 0
NotAMove == 9

MoveName == <<"ROCK", "PAPER", "SCISSORS", "LIZARD", "SPOCK">>
MoveNames == {MoveName[m] : m \in Move}

\* x.name if x else None
NameOrNone(x) == IF x = None THEN "None" ELSE MoveName[x]

\* the table with SPOCK's second entry wrong
WIN_MAP_SpockBeatsPaper ==
    [m \in Move |->
        CASE m = ROCK     -> {SCISSORS, LIZARD}
          [] m = PAPER    -> {ROCK, SPOCK}
          [] m = SCISSORS -> {PAPER, LIZARD}
          [] m = LIZARD   -> {PAPER, SPOCK}
          [] m = SPOCK    -> {ROCK, PAPER}]

WIN_MAP == [m \in Move |->
              CASE m = ROCK     -> {SCISSORS, LIZARD}
                [] m = PAPER    -> {ROCK, SPOCK}
                [] m = SCISSORS -> {PAPER, LIZARD}
                [] m = LIZARD   -> {PAPER, SPOCK}
                [] m = SPOCK    -> {ROCK, SCISSORS}]

\* resolve_round scoring a lost round as a draw
resolve_round_LossIsDraw(move_a, move_b) ==
    IF move_a = move_b THEN <<0, 0>>
    ELSE IF move_b \in WIN_MAP[move_a] THEN <<1, -1>>
    ELSE IF move_a \in WIN_MAP[move_b] THEN <<0, 0>>
    ELSE <<>>

\* resolve_round giving the winner two points
resolve_round_WinnerTakesTwo(move_a, move_b) ==
    IF move_a = move_b THEN <<0, 0>>
    ELSE IF move_b \in WIN_MAP[move_a] THEN <<2, -1>>
    ELSE IF move_a \in WIN_MAP[move_b] THEN <<-1, 2>>
    ELSE <<>>

\* resolve_round: <<delta_a, delta_b>>, or <<>> when it raises "Unresolvable move pair"
resolve_round(move_a, move_b) ==
    IF move_a = move_b THEN <<0, 0>>
    ELSE IF move_b \in WIN_MAP[move_a] THEN <<1, -1>>
    ELSE IF move_a \in WIN_MAP[move_b] THEN <<-1, 1>>
    ELSE <<>>

(* ------------------------------ match.py helpers ----------------------- *)
BUCKETS == << <<"HIGH", 40>>, <<"MEDIUM", 20>>, <<"LOW", 1>>, <<"EMPTY", 0>> >>

RECURSIVE BucketFrom(_, _)
BucketFrom(tokens_left, i) ==
    IF i > Len(BUCKETS) THEN "EMPTY"
    ELSE IF tokens_left >= BUCKETS[i][2] THEN BUCKETS[i][1]
    ELSE BucketFrom(tokens_left, i + 1)

\* the thresholds compared with > instead of >=
deception_bucket_Strict(tokens_left) ==
    IF tokens_left > 40 THEN "HIGH"
    ELSE IF tokens_left > 20 THEN "MEDIUM"
    ELSE IF tokens_left > 1 THEN "LOW"
    ELSE "EMPTY"

deception_bucket(tokens_left) == BucketFrom(tokens_left, 1)

\* validate_move letting every value through
validate_move_AcceptsAll(move) == TRUE

\* validate_move: TRUE when it returns, FALSE when it raises
validate_move(move) == move \in Move

(* ------------------------------ rng.py --------------------------------- *)
\* A 32-bit integer is <<high 16 bits, low 16 bits>>.
RECURSIVE Xor16(_, _, _)
Xor16(x, y, n) ==
    IF n = 0 THEN 0
    ELSE (((x % 2) + (y % 2)) % 2) + (2 * Xor16(x \div 2, y \div 2, n - 1))

Xor32(x, y) == <<Xor16(x[1], y[1], 16), Xor16(x[2], y[2], 16)>>

\* 0xA5A5A5A5 and 0x5A5A5A5A
MaskA == <<42405, 42405>>
MaskB == <<23130, 23130>>

\* int(sha256(f"{name_a}|{name_b}|{SEED_SALT}").hexdigest(), 16) % 2**32
Sha256Mod32(name_a, name_b, salt) ==
    CASE <<name_a, name_b, salt>> = <<"chaos_test_bot", "reference_bot", "CHAOS_LEAGUE_2026">> -> <<24558, 11960>>
      [] <<name_a, name_b, salt>> = <<"chaos_test_bot", "frequency_counter_bot", "CHAOS_LEAGUE_2026">> -> <<22215, 6500>>
      [] <<name_a, name_b, salt>> = <<"frequency_counter_bot", "reference_bot", "CHAOS_LEAGUE_2026">> -> <<10969, 55960>>
      [] <<name_a, name_b, salt>> = <<"custom_bot", "reference_bot", "CHAOS_LEAGUE_2026">> -> <<41157, 64495>>
      [] <<name_a, name_b, salt>> = <<"frequency_counter_bot", "custom_bot", "CHAOS_LEAGUE_2026">> -> <<10742, 28648>>
      [] <<name_a, name_b, salt>> = <<"faulty_bot", "frequency_counter_bot", "CHAOS_LEAGUE_2026">> -> <<57901, 49832>>
      [] <<name_a, name_b, salt>> = <<"chaos_test_bot_frequency_counter_bot_1_A_CHAOS_LEAGUE_2026", "frequency_counter_bot_chaos_test_bot_1_B_CHAOS_LEAGUE_2026", "CHAOS_LEAGUE_2026">> -> <<20239, 47734>>
      [] <<name_a, name_b, salt>> = <<"chaos_test_bot_frequency_counter_bot_2_A_CHAOS_LEAGUE_2026", "frequency_counter_bot_chaos_test_bot_2_B_CHAOS_LEAGUE_2026", "CHAOS_LEAGUE_2026">> -> <<22620, 7096>>
      [] <<name_a, name_b, salt>> = <<"chaos_test_bot_frequency_counter_bot_3_A_CHAOS_LEAGUE_2026", "frequency_counter_bot_chaos_test_bot_3_B_CHAOS_LEAGUE_2026", "CHAOS_LEAGUE_2026">> -> <<13623, 58675>>

\* the seed a random.Random was built from: an int (32 bits) or a str
IntSeed(n) == [kind |-> "int", ival |-> n, sval |-> ""]
StrSeed(s) == [kind |-> "str", ival |-> <<0, 0>>, sval |-> s]

\* random.Random(seed): a fresh stream at position 0
Random(seed) == [seed |-> seed, pos |-> 0]

\* make_rng(name_a, name_b): the pair of streams, side a then side b
make_rng(name_a, name_b) ==
    LET seed == Sha256Mod32(name_a, name_b, SEED_SALT)
    IN  [a |-> Random(IntSeed(Xor32(seed, MaskA))),
         b |-> Random(IntSeed(Xor32(seed, MaskB)))]

\* the cells a draw can return, in tenths of the unit interval
Cells == {0, 4}

\* rng.choice(seq) on a cell
Choice(seq, c) == seq[((c * Len(seq)) \div 10) + 1]

(* ------------------------------ strategies ----------------------------- *)
\* The bots of bots/ and documentation/, by file stem. custom_bot is
\* documentation/template_bot.py with its request_shadow_move filled in by
\* the author; faulty_bot is a bot whose calls may raise or never return.
Sides == {"a", "b"}
Other(s) == IF s = "a" THEN "b" ELSE "a"

Pairings == { <<"chaos_test_bot", "reference_bot">>,
              <<"chaos_test_bot", "frequency_counter_bot">>,
              <<"frequency_counter_bot", "reference_bot">>,
              <<"custom_bot", "reference_bot">>,
              <<"frequency_counter_bot", "custom_bot">>,
              <<"faulty_bot", "frequency_counter_bot">> }

\* how a call of play can go: it returns what the bot's code computes, it
\* raises, it never returns, it returns a value that is not a dict, or it
\* returns a dict whose real_move is not a Move
PlayEnds(b) ==
    IF b = "faulty_bot" THEN {"ok", "raise", "hang", "not_a_dict", "not_a_move"}
    ELSE {"ok"}

\* a value that is not a dict (a str, a Move, None), and the test for one
NotADict == [not_a_mapping |-> TRUE]
IsDict(o) == "not_a_mapping" \notin DOMAIN o

\* a value unpacks into (shadow_req, shadow_move) when it has two items
IsPair(v) == Len(v) = 2

\* what request_shadow_move can return once the author has written it
ShadowOutputs == { <<FALSE, None>>, <<TRUE, None>>, <<TRUE, PAPER>>, <<TRUE, NotAMove>> }

\* a str never compares equal to a Move member (frequency_counter_bot.py:32)
StrEqMove(name, m) == FALSE

\* Counter(history).most_common(1)[0][0]: the first name with the top count
MostCommon(history) ==
    LET cnt(n) == Cardinality({i \in 1..Len(history) : history[i] = n})
        first == CHOOSE i \in 1..Len(history) :
                   /\ \A j \in 1..Len(history) : cnt(history[j]) <= cnt(history[i])
                   /\ \A j \in 1..(i - 1) : cnt(history[j]) < cnt(history[i])
    IN  history[first]

\* a call that ended without returning: nothing comes back
NoResult(end, history) ==
    [ret |-> end, out |-> [real_move |-> None], used |-> 0, hist |-> history]

\* state["opponent_last_visible"] appended to opponent_history unless None
Remember(history, view) ==
    IF view.opponent_last_visible # "None"
    THEN Append(history, view.opponent_last_visible) ELSE history

\* bots/chaos_test_bot.py play, on the cells cs its stream returns next
chaos_test_bot_play(history, view, cs) ==
    LET real_move == Choice(MOVES, cs[1])
        low == view.opponent_deception_bucket \in {"LOW", "EMPTY"}
        use_shadow == low /\ cs[2] < 3
    IN  IF use_shadow
        THEN [ret |-> "ok",
              out |-> [real_move |-> real_move, shadow |-> TRUE,
                       shadow_move |-> Choice(MOVES, cs[3])],
              used |-> 3, hist |-> history]
        ELSE [ret |-> "ok",
              out |-> [real_move |-> real_move, shadow |-> FALSE],
              used |-> IF low THEN 2 ELSE 1, hist |-> history]

\* bots/frequency_counter_bot.py play
frequency_counter_bot_play(history, view) ==
    LET hist1 == Remember(history, view)
    IN  IF hist1 = <<>>
        THEN [ret |-> "ok", out |-> [real_move |-> ROCK, shadow |-> FALSE],
              used |-> 0, hist |-> hist1]
        ELSE LET most_common == MostCommon(hist1)
                 counters == SelectSeq(MOVES,
                               LAMBDA m : \E x \in WIN_MAP[m] : StrEqMove(most_common, x))
             IN  [ret |-> "ok",
                  out |-> [real_move |-> IF counters = <<>> THEN ROCK ELSE counters[1],
                           shadow |-> FALSE],
                  used |-> 0, hist |-> hist1]

\* bots/reference_bot.py play. After ten remembered moves it looks a name up
\* in _counters_for, which is keyed by Move: KeyError.
reference_bot_play(history, view, cs) ==
    LET hist1 == Remember(history, view)
    IN  IF Len(hist1) < 10
        THEN [ret |-> "ok", out |-> [real_move |-> Choice(MOVES, cs[1])],
              used |-> 1, hist |-> hist1]
        ELSE NoResult("raise", hist1)

\* documentation/template_bot.py play
template_bot_play(history, view, cs) ==
    [ret |-> "ok", out |-> [real_move |-> Choice(MOVES, cs[1])],
     used |-> 1, hist |-> history]

\* bot.play(state, rng) run on the cells cs the stream returns next.
\* Result: how the call ends, the dict returned, the draws it took and the
\* bot's opponent_history afterwards.
Play(b, history, view, cs, end) ==
    CASE end \in {"raise", "hang"} -> NoResult(end, history)
      [] end = "not_a_dict" ->
           [ret |-> "ok", out |-> NotADict, used |-> 0, hist |-> history]
      [] end = "not_a_move" ->
           [ret |-> "ok", out |-> [real_move |-> NotAMove], used |-> 0, hist |-> history]
      [] end = "ok" /\ b = "chaos_test_bot" -> chaos_test_bot_play(history, view, cs)
      [] end = "ok" /\ b = "frequency_counter_bot" -> frequency_counter_bot_play(history, view)
      [] end = "ok" /\ b = "reference_bot" -> reference_bot_play(history, view, cs)
      [] end = "ok" /\ b = "custom_bot" -> template_bot_play(history, view, cs)
      [] end = "ok" /\ b = "faulty_bot" ->
           [ret |-> "ok", out |-> [real_move |-> PAPER], used |-> 0, hist |-> history]

\* the ways bot.request_shadow_move(state) can end: <<how, value returned>>
RequestShadow(b) ==
    CASE b \in {"chaos_test_bot", "frequency_counter_bot"} ->
           \* no such method: AttributeError inside the child
           {<<"raise", <<FALSE, None>>>>}
      [] b = "reference_bot" -> {<<"ok", <<FALSE, None>>>>}
      [] b = "custom_bot" -> {<<"ok", o>> : o \in ShadowOutputs}
      [] b = "faulty_bot" ->
           {<<"ok", <<TRUE, PAPER>>>>, <<"raise", <<FALSE, None>>>>,
            <<"hang", <<FALSE, None>>>>, <<"ok", <<TRUE>>>>}

\* the most draws one play call of the bot takes, and the cells for them
MaxDraws(b) ==
    CASE b = "chaos_test_bot" -> 3
      [] b \in {"reference_bot", "custom_bot"} -> 1
      [] OTHER -> 0

Draws(b) == [1..MaxDraws(b) -> Cells]

\* dict.get(key, default)
Get(d, key, default) == IF key \in DOMAIN d THEN d[key] ELSE default

(* ------------------------------ bot_runner.py -------------------------- *)
DEFAULT_MOVE == MOVES[1]

\* the guard handing back whatever the call left, fault or not
safe_play_NoDefault(r) == r.out

\* safe_play: the dict the parent gets back from the child
safe_play(r) ==
    IF r.ret = "ok" THEN r.out ELSE [real_move |-> DEFAULT_MOVE]

\* safe_shadow: the pair the parent gets back from the child
safe_shadow(e) ==
    IF e[1] = "ok" THEN e[2] ELSE <<FALSE, None>>

(* ------------------------------ state ---------------------------------- *)
VARIABLES
    bot,            \* side -> the bot's name (file stem); bot_a, bot_b
    budget,         \* config.DECEPTION_TOKENS of this run
    log_present,    \* whether raw/rounds.jsonl is on disk
    tape,           \* <<seed, position>> -> the cell that draw returns
    pc,             \* where run_match and its driver stand
    round_idx,
    score, tokens, tokens_used, last_real, last_visible, move_counts,
    rng,            \* side -> the parent's stream [seed, pos]
    state,          \* side -> the state dict built for this round
    out,            \* side -> what safe_play returned this round; out_a, out_b
    shadow_out,     \* side -> what safe_shadow returned this round
    real, visible, shadow,
    req,            \* side -> <<shadow_req, shadow_move>> from safe_shadow
    play_end,       \* side -> how this round's play call ended
    play_draws,     \* side -> the draws this round's play call took in the child
    shadow_end,     \* side -> how this round's request_shadow_move call ended
    drew,           \* side -> draws the engine took from the stream this round
    tok0,           \* side -> the pool when this round's gate was entered
    audit,          \* one entry per finished round: what the engine did
    rounds_log,     \* raw/rounds.jsonl
    summary_log,    \* summaries/matches.jsonl
    metadata,       \* the replay metadata file, or NoFile
    rpc,            \* where validate_match_replay stands
    r_idx,          \* 1-based position in match_rounds
    r_last_real, r_last_visible, r_tokens, r_rng,
    r_hist,         \* side -> opponent_history of the bot object replay loaded
    r_state,        \* side -> the state dict replay built last
    r_real,         \* side -> the real move replay recomputed last
    failure,        \* what validate_match_replay raised, or NoFailure
    calls,          \* the calls a unit harness made: [fn, args, ret]
    workers,        \* match of the tournament -> its pool thread [pc, round, pending]
    raw_file,       \* the write calls _RAW_FILE got from the pool, in order
    summary_file    \* the write calls _SUMMARY_FILE got from the pool, in order

inputVars == <<bot, budget, log_present>>
matchVars == <<pc, round_idx, score, tokens, tokens_used, last_real, last_visible,
               move_counts, rng, state, out, shadow_out, real, visible, shadow, req,
               play_end, play_draws, shadow_end, drew, tok0, audit>>
logVars == <<rounds_log, summary_log, metadata>>
replayVars == <<rpc, r_idx, r_last_real, r_last_visible, r_tokens, r_rng,
                r_hist, r_state, r_real, failure>>
harnessVars == <<calls, workers, raw_file, summary_file>>
vars == <<inputVars, tape, matchVars, logVars, replayVars, harnessVars>>

Both(x) == [s \in Sides |-> x]
NoFile == [exists |-> FALSE]
NoFailure == [kind |-> "none"]
NoState == [round |-> 0]
\* Bot.__init__: an empty opponent_history
FreshHistory == <<>>

\* no unit harness and no tournament pool at work
HarnessIdle ==
    /\ calls = <<>>
    /\ workers = <<>>
    /\ raw_file = <<>>
    /\ summary_file = <<>>

\* the bots p loaded, the budget bg configured, the driver standing at `at`,
\* and nothing replayed yet
Fresh(p, bg, at) ==
    /\ bot = [a |-> p[1], b |-> p[2]]
    /\ budget = bg
    /\ tape = <<>>
    /\ pc = at
    /\ round_idx = 0
    /\ score = Both(0)
    /\ tokens = Both(0)
    /\ tokens_used = Both(0)
    /\ last_real = Both(None)
    /\ last_visible = Both(None)
    /\ move_counts = Both([m \in Move |-> 0])
    /\ rng = Both(Random(IntSeed(<<0, 0>>)))
    /\ state = Both(NoState)
    /\ out = Both([real_move |-> None])
    /\ shadow_out = Both(<<FALSE, None>>)
    /\ real = Both(None)
    /\ visible = Both(None)
    /\ shadow = Both(FALSE)
    /\ req = Both(<<FALSE, None>>)
    /\ play_end = Both("ok")
    /\ play_draws = Both(0)
    /\ shadow_end = Both("ok")
    /\ drew = Both(0)
    /\ tok0 = Both(0)
    /\ audit = <<>>
    /\ summary_log = <<>>
    /\ rpc = "NotStarted"
    /\ r_idx = 0
    /\ r_last_real = Both(None)
    /\ r_last_visible = Both(None)
    /\ r_tokens = Both(0)
    /\ r_rng = Both(Random(IntSeed(<<0, 0>>)))
    /\ r_hist = Both(FreshHistory)
    /\ r_state = Both(NoState)
    /\ r_real = Both(None)
    /\ failure = NoFailure

\* Fresh, with the log files init_logging opens (logger.py:77) still empty
\* and no replay metadata written
Loaded(p, bg, at) ==
    /\ Fresh(p, bg, at)
    /\ log_present = TRUE
    /\ rounds_log = <<>>
    /\ metadata = NoFile

Init ==
    /\ \E p \in Pairings, bg \in TokenBudgets : Loaded(p, bg, "NotStarted")
    /\ HarnessIdle

(* ------------------------------ streams -------------------------------- *)
Known(tp, seed, p) == <<seed, p>> \in DOMAIN tp

\* cs are cells the stream r can return for its next Len(cs) draws
Readable(tp, r, cs) ==
    \A i \in 1..Len(cs) : Known(tp, r.seed, r.pos + i) => cs[i] = tp[<<r.seed, r.pos + i>>]

\* cells past the n that are read are not looked at: keep one choice of them
Unread(tp, r, cs, n) ==
    \A i \in (n + 1)..Len(cs) : ~Known(tp, r.seed, r.pos + i) => cs[i] = 0

\* the tape once the next n draws of stream r have returned cs[1..n]
Reveal(tp, r, cs, n) ==
    LET new == {<<r.seed, r.pos + i>> : i \in 1..n}
    IN  [k \in (DOMAIN tp) \cup new |->
            IF k \in DOMAIN tp THEN tp[k] ELSE cs[k[2] - r.pos]]

Advance(r, n) == [r EXCEPT !.pos = r.pos + n]


(* ------------------------------ match.py: run_match -------------------- *)
\* lines 50-59: the streams and the counters of a new match
StartMatch ==
    /\ pc = "NotStarted"
    /\ rng' = make_rng(bot.a, bot.b)
    /\ score' = Both(0)
    /\ tokens' = Both(budget)
    /\ last_real' = Both(None)
    /\ last_visible' = Both(None)
    /\ tokens_used' = Both(0)
    /\ move_counts' = Both([m \in Move |-> 0])
    /\ round_idx' = 1
    /\ pc' = IF ROUNDS >= 1 THEN "Play" ELSE "Summary"
    /\ UNCHANGED <<inputVars, harnessVars, tape, state, out, shadow_out, real, visible, shadow, req,
                   play_end, play_draws, shadow_end, drew, tok0, audit, logVars, replayVars>>

\* the state dict showing the opponent's last real move
BuildState_ShowsReal(s) ==
    [round |-> round_idx,
     opponent_last_visible |-> NameOrNone(last_real[Other(s)]),
     self_last_real |-> NameOrNone(last_real[s]),
     opponent_deception_bucket |-> deception_bucket(tokens[Other(s)])]

\* lines 62-73: the state dict of side s
BuildState(s) ==
    [round |-> round_idx,
     opponent_last_visible |-> NameOrNone(last_visible[Other(s)]),
     self_last_real |-> NameOrNone(last_real[s]),
     opponent_deception_bucket |-> deception_bucket(tokens[Other(s)])]

\* lines 62-82: both state dicts, both safe_play calls, both validate_move.
\* The children read the cells that follow the parent's position; the
\* parent's streams and bot objects stay as they are.
PlayMoves ==
    /\ pc = "Play"
    /\ \E csa \in Draws(bot.a), csb \in Draws(bot.b),
          ea \in PlayEnds(bot.a), eb \in PlayEnds(bot.b) :
         LET st == [s \in Sides |-> BuildState(s)]
             ra == Play(bot.a, FreshHistory, st.a, csa, ea)
             rb == Play(bot.b, FreshHistory, st.b, csb, eb)
             out_a == safe_play(ra)
             out_b == safe_play(rb)
             \* out.get raises AttributeError on a value that is not a dict:
             \* a name the raise comes before keeps the value it had
             real_a == IF IsDict(out_a) THEN Get(out_a, "real_move", MOVES[1])
                       ELSE real.a
             real_b == IF IsDict(out_a) /\ IsDict(out_b)
                       THEN Get(out_b, "real_move", MOVES[1]) ELSE real.b
         IN  /\ Readable(tape, rng.a, csa) /\ Unread(tape, rng.a, csa, ra.used)
             /\ Readable(tape, rng.b, csb) /\ Unread(tape, rng.b, csb, rb.used)
             /\ tape' = Reveal(Reveal(tape, rng.a, csa, ra.used), rng.b, csb, rb.used)
             /\ state' = st
             /\ play_end' = [a |-> ra.ret, b |-> rb.ret]
             /\ play_draws' = [a |-> ra.used, b |-> rb.used]
             /\ out' = [a |-> out_a, b |-> out_b]
             /\ real' = [a |-> real_a, b |-> real_b]
             /\ pc' = IF /\ IsDict(out_a) /\ IsDict(out_b)
                         /\ validate_move(real_a) /\ validate_move(real_b)
                      THEN "Shadow" ELSE "Failed"
    /\ UNCHANGED <<inputVars, harnessVars, round_idx, score, tokens, tokens_used, last_real,
                   last_visible, move_counts, rng, shadow_out, visible, shadow, req,
                   shadow_end, drew, tok0, audit, logVars, replayVars>>

\* the gate without its test of the pool
Gate_NoPoolTest(s, rq, d) ==
    IF rq[1] /\ rq[2] # None
    THEN IF d > SHADOW_REJECT_PROB
         THEN [ok |-> validate_move(rq[2]), visible |-> rq[2],
               tokens |-> tokens[s] - 1, tokens_used |-> tokens_used[s] + 1,
               shadow |-> TRUE, rng |-> Advance(rng[s], 1), drew |-> 1]
         ELSE [ok |-> TRUE, visible |-> real[s],
               tokens |-> tokens[s], tokens_used |-> tokens_used[s],
               shadow |-> FALSE, rng |-> Advance(rng[s], 1), drew |-> 1]
    ELSE [ok |-> TRUE, visible |-> real[s],
          tokens |-> tokens[s], tokens_used |-> tokens_used[s],
          shadow |-> FALSE, rng |-> rng[s], drew |-> 0]

\* the gate charging a token for a rejected shadow as well
Gate_ChargesRejected(s, rq, d) ==
    IF rq[1] /\ tokens[s] > 0 /\ rq[2] # None
    THEN IF d > SHADOW_REJECT_PROB
         THEN [ok |-> validate_move(rq[2]), visible |-> rq[2],
               tokens |-> tokens[s] - 1, tokens_used |-> tokens_used[s] + 1,
               shadow |-> TRUE, rng |-> Advance(rng[s], 1), drew |-> 1]
         ELSE [ok |-> TRUE, visible |-> real[s],
               tokens |-> tokens[s] - 1, tokens_used |-> tokens_used[s] + 1,
               shadow |-> FALSE, rng |-> Advance(rng[s], 1), drew |-> 1]
    ELSE [ok |-> TRUE, visible |-> real[s],
          tokens |-> tokens[s], tokens_used |-> tokens_used[s],
          shadow |-> FALSE, rng |-> rng[s], drew |-> 0]

\* the gate drawing on every shadow request, pool or no pool
Gate_DrawsWithoutPool(s, rq, d) ==
    IF rq[1] /\ rq[2] # None
    THEN IF d > SHADOW_REJECT_PROB /\ tokens[s] > 0
         THEN [ok |-> validate_move(rq[2]), visible |-> rq[2],
               tokens |-> tokens[s] - 1, tokens_used |-> tokens_used[s] + 1,
               shadow |-> TRUE, rng |-> Advance(rng[s], 1), drew |-> 1]
         ELSE [ok |-> TRUE, visible |-> real[s],
               tokens |-> tokens[s], tokens_used |-> tokens_used[s],
               shadow |-> FALSE, rng |-> Advance(rng[s], 1), drew |-> 1]
    ELSE [ok |-> TRUE, visible |-> real[s],
          tokens |-> tokens[s], tokens_used |-> tokens_used[s],
          shadow |-> FALSE, rng |-> rng[s], drew |-> 0]

\* the gate spending the token of an accepted shadow without counting it
Gate_SpendsUncounted(s, rq, d) ==
    IF rq[1] /\ tokens[s] > 0 /\ rq[2] # None
    THEN IF d > SHADOW_REJECT_PROB
         THEN [ok |-> validate_move(rq[2]), visible |-> rq[2],
               tokens |-> tokens[s] - 1, tokens_used |-> tokens_used[s],
               shadow |-> TRUE, rng |-> Advance(rng[s], 1), drew |-> 1]
         ELSE [ok |-> TRUE, visible |-> real[s],
               tokens |-> tokens[s], tokens_used |-> tokens_used[s],
               shadow |-> FALSE, rng |-> Advance(rng[s], 1), drew |-> 1]
    ELSE [ok |-> TRUE, visible |-> real[s],
          tokens |-> tokens[s], tokens_used |-> tokens_used[s],
          shadow |-> FALSE, rng |-> rng[s], drew |-> 0]

\* lines 90-96 for one side: [ok, visible, tokens, tokens_used, shadow, rng, drew]
\* given the pair safe_shadow returned and the cell d the stream returns next
Gate(s, rq, d) ==
    IF rq[1] /\ tokens[s] > 0 /\ rq[2] # None
    THEN IF d > SHADOW_REJECT_PROB
         THEN [ok |-> validate_move(rq[2]), visible |-> rq[2],
               tokens |-> tokens[s] - 1, tokens_used |-> tokens_used[s] + 1,
               shadow |-> TRUE, rng |-> Advance(rng[s], 1), drew |-> 1]
         ELSE [ok |-> TRUE, visible |-> real[s],
               tokens |-> tokens[s], tokens_used |-> tokens_used[s],
               shadow |-> FALSE, rng |-> Advance(rng[s], 1), drew |-> 1]
    ELSE [ok |-> TRUE, visible |-> real[s],
          tokens |-> tokens[s], tokens_used |-> tokens_used[s],
          shadow |-> FALSE, rng |-> rng[s], drew |-> 0]

\* a side whose gate was never entered because the other side's raised
Skipped(s) ==
    [ok |-> TRUE, visible |-> real[s], tokens |-> tokens[s],
     tokens_used |-> tokens_used[s], shadow |-> FALSE, rng |-> rng[s], drew |-> 0]

\* lines 84-104: both safe_shadow calls, then the gate of a, then the gate of b
ShadowGate ==
    /\ pc = "Shadow"
    /\ \E ea \in RequestShadow(bot.a), eb \in RequestShadow(bot.b),
          da \in [1..1 -> Cells], db \in [1..1 -> Cells] :
         LET rqa == safe_shadow(ea)
             rqb == safe_shadow(eb)
             \* lines 87-88: unpacking a value that is not a pair raises,
             \* and what comes after the raise is not run
             called_b == IsPair(rqa)
             unpacked == IsPair(rqa) /\ IsPair(rqb)
             ga == IF unpacked THEN Gate("a", rqa, da[1]) ELSE Skipped("a")
             gb == IF unpacked /\ ga.ok THEN Gate("b", rqb, db[1]) ELSE Skipped("b")
             g == [a |-> ga, b |-> gb]
         IN  /\ Readable(tape, rng.a, da) /\ Unread(tape, rng.a, da, ga.drew)
             /\ Readable(tape, rng.b, db) /\ Unread(tape, rng.b, db, gb.drew)
             /\ tape' = Reveal(Reveal(tape, rng.a, da, ga.drew), rng.b, db, gb.drew)
             /\ req' = [a |-> IF IsPair(rqa) THEN rqa ELSE req.a,
                         b |-> IF unpacked THEN rqb ELSE req.b]
             /\ shadow_end' = [a |-> ea[1], b |-> IF called_b THEN eb[1] ELSE shadow_end.b]
             /\ shadow_out' = [a |-> rqa, b |-> IF called_b THEN rqb ELSE shadow_out.b]
             /\ tok0' = tokens
             /\ visible' = [s \in Sides |-> IF g[s].ok THEN g[s].visible ELSE real[s]]
             /\ tokens' = [s \in Sides |-> IF g[s].ok THEN g[s].tokens ELSE tokens[s]]
             /\ tokens_used' = [s \in Sides |->
                                  IF g[s].ok THEN g[s].tokens_used ELSE tokens_used[s]]
             /\ shadow' = [s \in Sides |-> g[s].ok /\ g[s].shadow]
             /\ rng' = [s \in Sides |-> g[s].rng]
             /\ drew' = [s \in Sides |-> g[s].drew]
             /\ pc' = IF unpacked /\ ga.ok /\ gb.ok THEN "Resolve" ELSE "Failed"
    /\ UNCHANGED <<inputVars, harnessVars, round_idx, score, last_real, last_visible, move_counts,
                   state, out, real, play_end, play_draws, audit, logVars, replayVars>>

\* lines 114-126: the record log_round gets
RoundRecord ==
    [round |-> round_idx, bot_a |-> bot.a, bot_b |-> bot.b,
     a_real |-> MoveName[real.a], b_real |-> MoveName[real.b],
     a_visible |-> MoveName[visible.a], b_visible |-> MoveName[visible.b],
     a_shadow |-> shadow.a, b_shadow |-> shadow.b,
     a_bucket |-> deception_bucket(tokens.a), b_bucket |-> deception_bucket(tokens.b)]

\* the round resolved on what the opponent is shown
ScoreDelta_OnVisible(real_, visible_) == resolve_round(visible_.a, visible_.b)

\* line 106: the deltas of the round
ScoreDelta(real_, visible_) == resolve_round(real_.a, real_.b)

\* the frequency maps counting what the opponent was shown
Counted_Visible(real_, visible_) == visible_

\* lines 110-111: the moves the frequency maps count
Counted(real_, visible_) == real_

\* the loop ending as soon as one side leads
NextPc_StopsOnLead(idx) ==
    IF idx < ROUNDS /\ score.a = score.b THEN "Play" ELSE "Summary"

\* line 61: the loop goes on to round idx + 1, or ends
NextPc(idx) == IF idx < ROUNDS THEN "Play" ELSE "Summary"

\* lines 106-129: resolve, scores, counts, the round record, the history
ResolveRound ==
    /\ pc = "Resolve"
    /\ LET delta == ScoreDelta(real, visible)
       IN  IF delta = <<>>
           THEN /\ pc' = "Failed"
                /\ UNCHANGED <<score, move_counts, rounds_log, last_real,
                               last_visible, round_idx, audit>>
           ELSE /\ score' = [a |-> score.a + delta[1], b |-> score.b + delta[2]]
                /\ move_counts' = [s \in Sides |->
                                     [move_counts[s] EXCEPT
                                        ![Counted(real, visible)[s]] = @ + 1]]
                /\ rounds_log' = IF COMPETITION THEN Append(rounds_log, RoundRecord)
                                 ELSE rounds_log
                /\ last_real' = real
                /\ last_visible' = visible
                /\ audit' = Append(audit,
                              [round |-> round_idx, state |-> state, real |-> real,
                               visible |-> visible, shadow |-> shadow, req |-> req,
                               play_end |-> play_end, play_draws |-> play_draws,
                               shadow_end |-> shadow_end,
                               drew |-> drew, tok0 |-> tok0, tokens |-> tokens,
                               delta |-> delta, rng |-> rng,
                               score |-> [a |-> score.a + delta[1],
                                          b |-> score.b + delta[2]]])
                /\ round_idx' = IF NextPc(round_idx) = "Play" THEN round_idx + 1
                                ELSE round_idx
                /\ pc' = NextPc(round_idx)
    /\ UNCHANGED <<inputVars, harnessVars, tape, tokens, tokens_used, rng, state, out, shadow_out,
                   real, visible, shadow, req, play_end, play_draws, shadow_end, drew, tok0,
                   summary_log, metadata, replayVars>>

\* lines 132-143: the summary dict; a ratio is <<numerator, denominator>>
Summary ==
    [bot_a |-> bot.a, bot_b |-> bot.b,
     score_a |-> score.a, score_b |-> score.b,
     tokens_used_a |-> tokens_used.a, tokens_used_b |-> tokens_used.b,
     shadow_efficiency_a |-> <<tokens_used.a, IF budget > 1 THEN budget ELSE 1>>,
     shadow_efficiency_b |-> <<tokens_used.b, IF budget > 1 THEN budget ELSE 1>>,
     moves_a |-> [n \in {MoveName[m] : m \in {x \in Move : move_counts.a[x] > 0}} |->
                    move_counts.a[CHOOSE m \in Move : MoveName[m] = n]],
     moves_b |-> [n \in {MoveName[m] : m \in {x \in Move : move_counts.b[x] > 0}} |->
                    move_counts.b[CHOOSE m \in Move : MoveName[m] = n]]]

\* line 18: `from engine.logger import ... _RESULTS_ROOT` binds the name in
\* match.py to the value logger._RESULTS_ROOT has at import (logger.py:13).
\* init_logging rebinds logger's global only (logger.py:58, 66).
ImportedResultsRoot == None

\* lines 172-181: the replay metadata record run_match writes
ReplayMeta ==
    [exists |-> TRUE, bot_a |-> bot.a, bot_b |-> bot.b,
     score_a |-> score.a, score_b |-> score.b,
     tokens_used_a |-> tokens_used.a, tokens_used_b |-> tokens_used.b,
     rounds_log |-> "raw/rounds.jsonl"]

\* lines 131-185: the summary is logged and returned; the replay metadata is
\* written when match.py's _RESULTS_ROOT is set
EmitSummary ==
    /\ pc = "Summary"
    /\ summary_log' = IF COMPETITION THEN Append(summary_log, Summary) ELSE summary_log
    /\ metadata' = IF ImportedResultsRoot # None THEN ReplayMeta ELSE metadata
    /\ pc' = "Completed"
    /\ UNCHANGED <<inputVars, harnessVars, tape, round_idx, score, tokens, tokens_used, last_real,
                   last_visible, move_counts, rng, state, out, shadow_out, real, visible,
                   shadow, req, play_end, play_draws, shadow_end, drew, tok0, audit,
                   rounds_log,
                   replayVars>>

(* ------------------------------ tests/test_replay_e2e.py --------------- *)
\* lines 45-63: the driver logs the returned summary and writes the
\* replay metadata file
WriteReplayMeta ==
    /\ pc = "Completed"
    /\ summary_log' = Append(summary_log, Summary)
    /\ metadata' = [exists |-> TRUE, bot_a |-> bot.a, bot_b |-> bot.b,
                    rounds_log |-> "raw/rounds.jsonl"]
    /\ pc' = "MetaWritten"
    /\ UNCHANGED <<inputVars, harnessVars, tape, round_idx, score, tokens, tokens_used, last_real,
                   last_visible, move_counts, rng, state, out, shadow_out, real, visible,
                   shadow, req, play_end, play_draws, shadow_end, drew, tok0, audit,
                   rounds_log,
                   replayVars>>

(* ------------------------------ replay_validator.py -------------------- *)
\* _move_from_name: Move[name]. A name that is no move raises RuntimeError,
\* which EntryFault reports as "invalid_name"; None stands for it here.
move_from_name(name) ==
    IF name \in MoveNames THEN CHOOSE m \in Move : MoveName[m] = name ELSE None

\* lines 57-61: the records of the round log for the metadata's bot pair
MatchRounds ==
    SelectSeq(rounds_log,
              LAMBDA r : r.bot_a = metadata.bot_a /\ r.bot_b = metadata.bot_b)

\* line 69: metadata.get("seed", 42)
MetaSeed == IF "seed" \in DOMAIN metadata THEN metadata.seed ELSE "42"

\* lines 69-71: the streams replay builds, random.Random(f"{seed}_a") and _b
ReplayStreams ==
    [a |-> Random(StrSeed(MetaSeed \o "_a")), b |-> Random(StrSeed(MetaSeed \o "_b"))]

\* an exception that ends validate_match_replay before any bot is called
Fatal(kind) ==
    [kind |-> kind, round |-> 0, bots |-> {}, recomputed |-> None, logged |-> None]

\* lines 59-60: the filter raises KeyError on a record without bot_a, and,
\* `and` being short-circuit, on one of the pair's bot_a without bot_b
FilterRaises(r) ==
    \/ "bot_a" \notin DOMAIN r
    \/ r.bot_a = metadata.bot_a /\ "bot_b" \notin DOMAIN r

\* lines 36-61: what stops the load, "none" when nothing does
LoadFault ==
    CASE ~metadata.exists -> "no_file"
      [] ~({"bot_a", "bot_b"} \subseteq DOMAIN metadata) -> "missing_field"
      [] ~log_present -> "no_file"
      [] \E i \in 1..Len(rounds_log) : FilterRaises(rounds_log[i]) -> "missing_field"
      [] OTHER -> "none"

\* lines 35-71: metadata, bots, round log, counters and streams
ReplayLoad ==
    /\ pc = "MetaWritten"
    /\ rpc = "NotStarted"
    /\ IF LoadFault # "none"
       THEN /\ rpc' = "Failed"
            /\ failure' = Fatal(LoadFault)
            /\ UNCHANGED <<r_hist, r_last_real, r_last_visible, r_tokens, r_rng, r_idx>>
       ELSE /\ r_hist' = Both(FreshHistory)
            /\ r_last_real' = Both(None)
            /\ r_last_visible' = Both(None)
            /\ r_tokens' = Both(budget)
            /\ r_rng' = ReplayStreams
            /\ r_idx' = 1
            /\ rpc' = "Replaying"
            /\ UNCHANGED failure
    /\ UNCHANGED <<inputVars, harnessVars, tape, matchVars, logVars, r_state, r_real>>

\* lines 81-92: the state dict replay builds for side s from the log entry
ReplayState(s, log_entry) ==
    [round |-> r_idx,
     opponent_last_visible |-> NameOrNone(r_last_visible[Other(s)]),
     self_last_real |-> NameOrNone(r_last_real[s]),
     opponent_deception_bucket |->
         IF s = "a" THEN log_entry.b_bucket ELSE log_entry.a_bucket]

\* the comparison of side b left out
Reproduced_SideAOnly(real_a, real_b, logged_a, logged_b) ==
    real_a = logged_a

\* lines 105-112: neither comparison raises
Reproduced(real_a, real_b, logged_a, logged_b) ==
    real_a = logged_a /\ real_b = logged_b

\* lines 106-108 and 110-112: the RuntimeError of a mismatch
Mismatch(name, recomputed, logged) ==
    [kind |-> "mismatch", round |-> r_idx, bots |-> {name},
     recomputed |-> recomputed, logged |-> logged]

\* lines 75-78: the four logged moves are looked up and converted in turn;
\* the first that is missing (KeyError) or not a move name (RuntimeError of
\* _move_from_name) ends the replay
RECURSIVE MovesFault(_, _)
MovesFault(log_entry, keys) ==
    IF keys = <<>> THEN "none"
    ELSE IF Head(keys) \notin DOMAIN log_entry THEN "missing_field"
    ELSE IF log_entry[Head(keys)] \notin MoveNames THEN "invalid_name"
    ELSE MovesFault(log_entry, Tail(keys))

\* lines 75-92: what stops the round before the bots are called
EntryFault(log_entry) ==
    LET moves == MovesFault(log_entry, <<"a_real", "b_real", "a_visible", "b_visible">>)
    IN  IF moves # "none" THEN moves
        ELSE IF ~({"a_bucket", "b_bucket"} \subseteq DOMAIN log_entry) THEN "missing_field"
        ELSE "none"

\* lines 73-126: one iteration of the loop over match_rounds. bot.play runs
\* in this process: the streams advance and the bot objects keep their state.
ReplayRound ==
    /\ rpc = "Replaying"
    /\ r_idx <= Len(MatchRounds)
    /\ IF EntryFault(MatchRounds[r_idx]) # "none"
       THEN /\ rpc' = "Failed"
            /\ failure' = [Fatal(EntryFault(MatchRounds[r_idx])) EXCEPT !.round = r_idx]
            /\ r_real' = Both(None)
            /\ UNCHANGED <<tape, r_idx, r_last_real, r_last_visible, r_tokens, r_rng,
                           r_hist, r_state>>
       ELSE
       \E csa \in Draws(metadata.bot_a), csb \in Draws(metadata.bot_b),
          ea \in PlayEnds(metadata.bot_a), eb \in PlayEnds(metadata.bot_b) :
         LET log_entry == MatchRounds[r_idx]
             logged_real == [a |-> move_from_name(log_entry.a_real),
                             b |-> move_from_name(log_entry.b_real)]
             logged_visible == [a |-> move_from_name(log_entry.a_visible),
                                b |-> move_from_name(log_entry.b_visible)]
             st == [s \in Sides |-> ReplayState(s, log_entry)]
             ra == Play(metadata.bot_a, r_hist.a, st.a, csa, ea)
             rb == Play(metadata.bot_b, r_hist.b, st.b, csb, eb)
             b_called == ra.ret = "ok"
             real_a == Get(ra.out, "real_move", None)
             real_b == Get(rb.out, "real_move", None)
             shadow_a == Get(ra.out, "shadow", FALSE)
             shadow_b == Get(rb.out, "shadow", FALSE)
             used_b == IF b_called THEN rb.used ELSE 0
             passed == /\ ra.ret = "ok" /\ rb.ret = "ok"
                       /\ real_a \in Move /\ real_b \in Move
                       /\ Reproduced(real_a, real_b, logged_real.a, logged_real.b)
         IN  /\ Readable(tape, r_rng.a, csa) /\ Unread(tape, r_rng.a, csa, ra.used)
             /\ Readable(tape, r_rng.b, csb) /\ Unread(tape, r_rng.b, csb, used_b)
             /\ b_called \/ eb = "ok"
             /\ tape' = Reveal(Reveal(tape, r_rng.a, csa, ra.used), r_rng.b, csb, used_b)
             /\ r_state' = st
             /\ r_real' = [a |-> real_a, b |-> IF b_called THEN real_b ELSE None]
             /\ r_rng' = [a |-> Advance(r_rng.a, ra.used), b |-> Advance(r_rng.b, used_b)]
             /\ r_hist' = [a |-> ra.hist, b |-> IF b_called THEN rb.hist ELSE r_hist.b]
             /\ IF passed
                THEN /\ r_tokens' = [a |-> IF shadow_a /\ r_tokens.a > 0
                                           THEN r_tokens.a - 1 ELSE r_tokens.a,
                                     b |-> IF shadow_b /\ r_tokens.b > 0
                                           THEN r_tokens.b - 1 ELSE r_tokens.b]
                     /\ r_last_real' = [a |-> real_a, b |-> real_b]
                     /\ r_last_visible' = logged_visible
                     /\ r_idx' = r_idx + 1
                     /\ UNCHANGED <<rpc, failure>>
                ELSE /\ UNCHANGED <<r_tokens, r_last_real, r_last_visible, r_idx>>
                     /\ rpc' = IF ra.ret = "hang" \/ (b_called /\ rb.ret = "hang")
                               THEN "Blocked" ELSE "Failed"
                     /\ failure' =
                          CASE ra.ret = "hang" \/ (b_called /\ rb.ret = "hang") -> NoFailure
                            [] \/ ra.ret = "raise" \/ (b_called /\ rb.ret = "raise")
                               \/ ~IsDict(ra.out) \/ ~IsDict(rb.out) ->
                                 [kind |-> "exception", round |-> 0, bots |-> {},
                                  recomputed |-> None, logged |-> None]
                            [] OTHER ->
                                 IF ~(real_a \in Move /\ real_b \in Move)
                                 THEN [kind |-> "invalid_type", round |-> r_idx,
                                       bots |-> {}, recomputed |-> None, logged |-> None]
                                 ELSE IF real_a # logged_real.a
                                 THEN Mismatch(metadata.bot_a, real_a, logged_real.a)
                                 ELSE Mismatch(metadata.bot_b, real_b, logged_real.b)
    /\ UNCHANGED <<inputVars, harnessVars, matchVars, logVars>>

\* lines 128-129: every record was reproduced
ReplaySuccess ==
    /\ rpc = "Replaying"
    /\ r_idx > Len(MatchRounds)
    /\ rpc' = "Success"
    /\ UNCHANGED <<inputVars, harnessVars, tape, matchVars, logVars, r_idx, r_last_real,
                   r_last_visible, r_tokens, r_rng, r_hist, r_state, r_real, failure>>

(* ------------------------------ specification -------------------------- *)
Next ==
    \/ StartMatch
    \/ PlayMoves
    \/ ShadowGate
    \/ ResolveRound
    \/ EmitSummary
    \/ WriteReplayMeta
    \/ ReplayLoad
    \/ ReplayRound
    \/ ReplaySuccess

Spec == Init /\ [][Next]_vars

(* ------------------------------ replay of files on disk --------------- *)
\* validate_match_replay run on whatever metadata file and round log it is
\* pointed at (tests/spot_test.py, tests/test_replay_e2e.py:66)
ReplayPairing == <<"frequency_counter_bot", "reference_bot">>

\* the mapping d without the key k
Without(d, k) == [f \in DOMAIN d \ {k} |-> d[f]]

\* logger.log_round's record (match.py:113-126) of round i for the pair p,
\* a having played the move named x and b ROCK, no shadow used
LoggedRecord(p, i, x, bg) ==
    [round |-> i, bot_a |-> p[1], bot_b |-> p[2],
     a_real |-> x, b_real |-> "ROCK", a_visible |-> x, b_visible |-> "ROCK",
     a_shadow |-> FALSE, b_shadow |-> FALSE,
     a_bucket |-> deception_bucket(bg), b_bucket |-> deception_bucket(bg)]

\* the keys of a round record
RecordFields == DOMAIN LoggedRecord(ReplayPairing, 1, "ROCK", 0)

\* what a line of the round log is drawn from: the pair it is of, the name
\* logged for a's move, the key the line lacks ("none": it lacks none)
OtherPairing == <<ReplayPairing[2], ReplayPairing[1]>>
LoggedNames == {"ROCK", "PAPER", "FIRE"}
Dropped == {"none", "bot_b", "a_real", "a_shadow", "b_bucket"}
DrawnEntries == {ReplayPairing, OtherPairing} \X LoggedNames \X Dropped

\* the round log whose i-th line is drawn as es[i]
DrawnLog(es, bg) ==
    [i \in DOMAIN es |-> Without(LoggedRecord(es[i][1], i, es[i][2], bg), es[i][3])]

\* the metadata file test_replay_e2e.py:52-59 writes
MetaFile ==
    [exists |-> TRUE, bot_a |-> ReplayPairing[1], bot_b |-> ReplayPairing[2],
     rounds_log |-> "raw/rounds.jsonl"]

\* the metadata files drawn: whole, lacking bot_b, not on disk
DrawnMetadata == {MetaFile, Without(MetaFile, "bot_b"), NoFile}

\* tournament.py:102-106: the matches of one pair, by match index
MatchesOfPair == {1, 2}

\* the orders in which the log_round calls of the pair's matches, run on
\* the pool (tournament.py:113-115), can reach the shared file: the match
\* each line is of, every match logging ROUNDS lines
TournamentOrders ==
    {f \in [1..(Cardinality(MatchesOfPair) * ROUNDS) -> MatchesOfPair] :
        \A m \in MatchesOfPair : Cardinality({k \in DOMAIN f : f[k] = m}) = ROUNDS}

\* the round of its match that line k is of
RoundAt(f, k) == Cardinality({j \in 1..k : f[j] = f[k]})

\* the round log the tournament leaves for the pair: every match logged ROCK
\* against ROCK in every round (frequency_counter_bot's move on a fresh
\* history, reference_bot's on a first cell of 0)
TournamentLog(f, bg) ==
    [k \in DOMAIN f |-> LoggedRecord(ReplayPairing, RoundAt(f, k), "ROCK", bg)]

ReplayInit ==
    /\ \/ \E bg \in TokenBudgets, md \in DrawnMetadata, present \in BOOLEAN,
             n \in 0..MaxRecords :
            \E es \in [1..n -> DrawnEntries] :
               /\ present \/ n = 0
               /\ Fresh(ReplayPairing, bg, "MetaWritten")
               /\ log_present = present
               /\ rounds_log = DrawnLog(es, bg)
               /\ metadata = md
       \/ \E bg \in TokenBudgets, f \in TournamentOrders :
               /\ Fresh(ReplayPairing, bg, "MetaWritten")
               /\ log_present = TRUE
               /\ rounds_log = TournamentLog(f, bg)
               /\ metadata = MetaFile
    /\ HarnessIdle

ReplayNext ==
    \/ ReplayLoad
    \/ ReplayRound
    \/ ReplaySuccess

ReplaySpec == ReplayInit /\ [][ReplayNext]_vars

(* ------------------------------ unit harness --------------------------- *)
\* resolve_round and deception_bucket are module-level functions of
\* judge.py and match.py: here each is called on its own, on every argument
\* of its domain, and the calls are kept with what they returned.
UnitInit ==
    /\ Loaded(<<"chaos_test_bot", "reference_bot">>, 0, "Idle")
    /\ HarnessIdle

\* the harness exercises one function at a time
Only(fn) == \A i \in 1..Len(calls) : calls[i].fn = fn

CallResolve ==
    /\ pc = "Idle" /\ Len(calls) < MaxCalls /\ Only("resolve_round")
    /\ \E move_a \in Move, move_b \in Move :
         calls' = Append(calls, [fn |-> "resolve_round", args |-> <<move_a, move_b>>,
                                 ret |-> resolve_round(move_a, move_b)])
    /\ UNCHANGED <<inputVars, tape, matchVars, logVars, replayVars,
                   workers, raw_file, summary_file>>

CallBucket ==
    /\ pc = "Idle" /\ Len(calls) < MaxCalls /\ Only("deception_bucket")
    /\ \E tokens_left \in 0..DECEPTION_TOKENS :
         calls' = Append(calls, [fn |-> "deception_bucket", args |-> <<tokens_left>>,
                                 ret |-> deception_bucket(tokens_left)])
    /\ UNCHANGED <<inputVars, tape, matchVars, logVars, replayVars,
                   workers, raw_file, summary_file>>

UnitNext == CallResolve \/ CallBucket

UnitSpec == UnitInit /\ [][UnitNext]_vars

\* the match engine and the unit harness side by side
EngineSpec == (Init \/ UnitInit) /\ [][Next \/ UnitNext]_vars

(* ------------------------------ tournament.py: the worker pool -------- *)
\* run_tournament submits every match of matches_to_run to a
\* ThreadPoolExecutor; each pool thread runs run_match, which calls log_round
\* once a round and log_match_summary once, on the two file objects all
\* threads share. logger.py takes no lock and TextIOWrapper is not
\* thread-safe, so what one write call leaves in the file while other threads
\* write is a choice among: the whole text, the text in two pieces with other
\* writes between them, or nothing.
MatchesToRun == << <<"chaos_test_bot", "frequency_counter_bot", 1>>,
                   <<"chaos_test_bot", "frequency_counter_bot", 2>> >>

PoolMatches == 1..Len(MatchesToRun)

\* how a write call of match m can come out: it races only while another
\* pool thread is inside run_match
WriteOutcomes(m) ==
    IF \E n \in DOMAIN workers : n # m /\ workers[n].pc = "rounds"
    THEN {"whole", "torn", "lost"} ELSE {"whole"}

\* json.dumps(_serialize(data)) + "\n": the text of one record, as the piece
\* that opens the line and the piece that closes it
Line(data) == << [piece |-> "head", of |-> data], [piece |-> "tail", of |-> data] >>

\* what of a text is in the file when the write call is under way, and what
\* of it is still to land
Landed(text, outcome) ==
    CASE outcome = "whole" -> text
      [] outcome = "torn" -> <<text[1]>>
      [] outcome = "lost" -> <<>>

Outstanding(text, outcome) == IF outcome = "torn" THEN <<text[2]>> ELSE <<>>

\* the dict run_match passes to log_round in round i of match m (the moves,
\* flags and buckets play no part in where the text lands)
PoolRoundRecord(m, i) ==
    [kind |-> "round", match |-> m, round |-> i,
     bot_a |-> MatchesToRun[m][1], bot_b |-> MatchesToRun[m][2]]

PoolSummary(m) ==
    [kind |-> "summary", match |-> m, round |-> 0,
     bot_a |-> MatchesToRun[m][1], bot_b |-> MatchesToRun[m][2]]

\* tournament.py:51-52: the per-match seed string of one side
SeedStr(name_x, name_y, match_idx, tag) ==
    name_x \o "_" \o name_y \o "_" \o ToString(match_idx) \o "_" \o tag \o "_" \o SEED_SALT

\* a pool thread that has not taken its match yet
Queued ==
    [pc |-> "queued", round |-> 0, pending |-> <<>>,
     rng |-> Both(Random(IntSeed(<<0, 0>>))), rng_seed_a |-> "", rng_seed_b |-> ""]

PoolInit ==
    /\ Loaded(<<"chaos_test_bot", "frequency_counter_bot">>, 0, "Idle")
    /\ calls = <<>>
    /\ workers = [m \in PoolMatches |-> Queued]
    /\ raw_file = <<>>
    /\ summary_file = <<>>

\* tournament.py:115 and 40-57: a pool thread takes the match and enters
\* run_match, which makes its streams from the two names (match.py:50); the
\* streams _run_single_match made at line 53 are passed to nobody
WorkerStart(m) ==
    /\ workers[m].pc = "queued"
    /\ workers' = [workers EXCEPT ![m] =
                      [Queued EXCEPT !.pc = "rounds", !.round = 1,
                                     !.rng = make_rng(MatchesToRun[m][1], MatchesToRun[m][2])]]
    /\ UNCHANGED <<inputVars, tape, matchVars, logVars, replayVars,
                   calls, raw_file, summary_file>>

\* match.py:61-126 in a pool thread: the round is played and log_round called
WorkerLogRound(m) ==
    /\ workers[m].pc = "rounds" /\ workers[m].pending = <<>>
    /\ workers[m].round <= MaxPoolRounds
    /\ \E outcome \in WriteOutcomes(m) :
         LET text == Line(PoolRoundRecord(m, workers[m].round))
         IN  /\ raw_file' = raw_file \o Landed(text, outcome)
             /\ workers' = [workers EXCEPT ![m].pending = Outstanding(text, outcome),
                                           ![m].round = @ + 1]
    /\ UNCHANGED <<inputVars, tape, matchVars, logVars, replayVars,
                   calls, summary_file>>

\* the rest of a text whose write call was overtaken reaches the file
WorkerFinishWrite(m) ==
    /\ workers[m].pending # <<>>
    /\ IF workers[m].pc = "rounds"
       THEN raw_file' = raw_file \o workers[m].pending /\ UNCHANGED summary_file
       ELSE summary_file' = summary_file \o workers[m].pending /\ UNCHANGED raw_file
    /\ workers' = [workers EXCEPT ![m].pending = <<>>]
    /\ UNCHANGED <<inputVars, tape, matchVars, logVars, replayVars, calls>>

\* match.py:132-146 in a pool thread: log_match_summary, then run_match
\* returns and tournament.py:59-62 attaches the seed strings to the summary
WorkerLogSummary(m) ==
    /\ workers[m].pc = "rounds" /\ workers[m].pending = <<>>
    /\ workers[m].round > MaxPoolRounds
    /\ \E outcome \in WriteOutcomes(m) :
         LET text == Line(PoolSummary(m))
         IN  /\ summary_file' = summary_file \o Landed(text, outcome)
             /\ workers' = [workers EXCEPT
                    ![m].pending = Outstanding(text, outcome),
                    ![m].pc = "returned",
                    ![m].rng_seed_a = SeedStr(MatchesToRun[m][1], MatchesToRun[m][2],
                                              MatchesToRun[m][3], "A"),
                    ![m].rng_seed_b = SeedStr(MatchesToRun[m][2], MatchesToRun[m][1],
                                              MatchesToRun[m][3], "B")]
    /\ UNCHANGED <<inputVars, tape, matchVars, logVars, replayVars,
                   calls, raw_file>>

PoolNext ==
    \E m \in PoolMatches :
        \/ WorkerStart(m)
        \/ WorkerLogRound(m)
        \/ WorkerFinishWrite(m)
        \/ WorkerLogSummary(m)

PoolSpec == PoolInit /\ [][PoolNext]_vars

(* ------------------------------ properties ----------------------------- *)
\* the logged real moves of the record replay is at, or was at last
LoggedReal(i) ==
    [a |-> move_from_name(MatchRounds[i].a_real),
     b |-> move_from_name(MatchRounds[i].b_real)]

\* C1: replaying the round log of a completed match with the same two
\* strategies reports success: validate_match_replay never raises (and never
\* stalls), because every real move it recomputes equals the logged one.
C1_FullReplaySucceeds ==
    rpc \notin {"Failed", "Blocked"}

\* C2: the two streams validate_match_replay hands to the sides are the
\* streams make_rng gave run_match for that pair: same seeds, same initial
\* position.
C2_ReplayStreamsAreMatchStreams ==
    (rpc = "Replaying" /\ r_idx = 1) => r_rng = make_rng(metadata.bot_a, metadata.bot_b)

\* the side whose recomputed move is the first to differ in the failing round
DivergedSide == IF r_real.a # LoggedReal(r_idx).a THEN "a" ELSE "b"

\* C3, detection: every round replay went past reproduced both logged real
\* moves, and a round in which a recomputed move differs from the logged one
\* ends the replay with a mismatch failure for that round.
C3_Detection ==
    /\ (rpc \in {"Replaying", "Success"} /\ r_idx > 1) => r_real = LoggedReal(r_idx - 1)
    /\ (rpc = "Failed" /\ r_real.a \in Move /\ r_real.b \in Move) =>
          /\ r_real # LoggedReal(r_idx)
          /\ failure.kind = "mismatch"
          /\ failure.round = MatchRounds[r_idx].round
    /\ rpc = "Success" => r_idx = Len(MatchRounds) + 1

LogReal(r, s) == IF s = "a" THEN r.a_real ELSE r.b_real
LogVisible(r, s) == IF s = "a" THEN r.a_visible ELSE r.b_visible
LogShadow(r, s) == IF s = "a" THEN r.a_shadow ELSE r.b_shadow

Rounds == 1..Len(audit)

\* C4: each side's token pool is >= 0 in every state, and no round record has
\* a shadow-used flag set, nor a visible move substituted, for a side whose
\* pool was zero at the start of that round.
C4_TokenPoolSafe ==
    /\ \A s \in Sides : tokens[s] >= 0
    /\ Len(rounds_log) = Len(audit)
    /\ \A i \in Rounds, s \in Sides :
          /\ audit[i].tokens[s] >= 0
          /\ audit[i].tok0[s] = 0 =>
                /\ ~LogShadow(rounds_log[i], s)
                /\ LogVisible(rounds_log[i], s) = LogReal(rounds_log[i], s)
    /\ pc = "Resolve" =>
          \A s \in Sides : tok0[s] = 0 => (~shadow[s] /\ visible[s] = real[s])

\* C4 witness: a side that spent its whole pool asks for a shadow again
C4_Witness ==
    \E i \in Rounds, s \in Sides :
        /\ budget > 0 /\ audit[i].tok0[s] = 0
        /\ audit[i].req[s] = <<TRUE, PAPER>>

\* the pool and the stream position of side s before round i
PoolBefore(i, s) == IF i = 1 THEN budget ELSE audit[i - 1].tokens[s]
PosBefore(i, s) == IF i = 1 THEN 0 ELSE audit[i - 1].rng[s].pos

\* the shadow of side s in round i was accepted: it was requested with a
\* valid move and tokens left, and the next cell of the side's stream
\* exceeds the rejection probability
Accepted(i, s) ==
    LET e == audit[i]
        k == <<e.rng[s].seed, PosBefore(i, s) + 1>>
    IN  /\ e.req[s][1] /\ PoolBefore(i, s) > 0 /\ e.req[s][2] \in Move
        /\ k \in DOMAIN tape /\ tape[k] > SHADOW_REJECT_PROB

\* C5: for each side of each round: if the shadow is accepted the visible
\* move is the shadow move, one token is deducted and the flag is set;
\* otherwise the visible move is the real move, the flag is false and the
\* pool is unchanged. So a pool never grows and drops by at most one a round.
C5_GateEffect ==
    \A i \in Rounds, s \in Sides :
        LET e == audit[i]
        IN  /\ e.tok0[s] = PoolBefore(i, s)
            /\ IF Accepted(i, s)
               THEN /\ e.visible[s] = e.req[s][2]
                    /\ e.tokens[s] = PoolBefore(i, s) - 1
                    /\ e.shadow[s]
               ELSE /\ e.visible[s] = e.real[s]
                    /\ e.tokens[s] = PoolBefore(i, s)
                    /\ ~e.shadow[s]
            /\ LogShadow(rounds_log[i], s) = e.shadow[s]
            /\ LogVisible(rounds_log[i], s) = MoveName[e.visible[s]]
            /\ (i = Len(audit) /\ pc # "Failed" /\ pc # "Resolve") => tokens[s] = e.tokens[s]

\* C5 witness: one side has a shadow accepted in one round and rejected in
\* another
C5_Witness ==
    \E i \in Rounds, j \in Rounds, s \in Sides :
        /\ Accepted(i, s)
        /\ audit[j].req[s] = <<TRUE, PAPER>> /\ audit[j].tok0[s] > 0 /\ ~Accepted(j, s)

\* C6 as claimed: in each round the engine takes exactly one draw from a
\* side's stream when the side requested a shadow with tokens left, and none
\* when it did not request one or has no tokens.
C6_DrawIffRequestedWithTokens ==
    \A i \in Rounds, s \in Sides :
        audit[i].drew[s] = IF audit[i].req[s][1] /\ audit[i].tok0[s] > 0 THEN 1 ELSE 0

\* the streams make_rng builds for each pairing
PairStreams == [p \in Pairings |-> make_rng(p[1], p[2])]

\* C6 as amended: in each round the engine resolves, it takes exactly one
\* draw from a side's own stream when the side requested a shadow with
\* tokens left and supplied a shadow move (not None), accepted or not; it
\* takes none otherwise, and a stream moves by the side's own draws only.
C6_DrawIffShadowAttempted ==
    LET streams == PairStreams[<<bot.a, bot.b>>]
    IN  \A i \in Rounds, s \in Sides :
        LET e == audit[i]
        IN  /\ e.drew[s] = IF e.req[s][1] /\ e.tok0[s] > 0 /\ e.req[s][2] # None
                           THEN 1 ELSE 0
            /\ e.rng[s].seed = streams[s].seed
            /\ e.rng[s].pos = PosBefore(i, s) + e.drew[s]
            /\ (i = Len(audit) /\ pc # "Failed" /\ pc # "Resolve") => rng[s] = e.rng[s]

\* C6 witness: a draw taken for a shadow that was then rejected, and a round
\* with a shadow requested without a move, tokens left, and no draw
C6_Witness ==
    \E i \in Rounds, j \in Rounds, s \in Sides :
        /\ audit[i].drew[s] = 1 /\ ~audit[i].shadow[s]
        /\ audit[j].req[s] = <<TRUE, None>> /\ audit[j].tok0[s] > 0 /\ audit[j].drew[s] = 0

\* the scores before round i
ScoreBefore(i) == IF i = 1 THEN Both(0) ELSE audit[i - 1].score

\* C7: the deltas applied in every round are resolve(real_a, real_b), so two
\* rounds with the same real moves get the same deltas whatever happened to
\* the shadows, and the scores are the sums of those deltas.
C7_ScoringUsesRealMoves ==
    /\ \A i \in Rounds :
          LET e == audit[i]
              d == resolve_round(move_from_name(rounds_log[i].a_real),
                                 move_from_name(rounds_log[i].b_real))
          IN  /\ e.delta = d
              /\ e.score = [a |-> ScoreBefore(i).a + d[1], b |-> ScoreBefore(i).b + d[2]]
    /\ \A i \in Rounds, j \in Rounds :
          audit[i].real = audit[j].real => audit[i].delta = audit[j].delta
    /\ Len(audit) > 0 => score = audit[Len(audit)].score

\* C7 witness: a round with an accepted shadow where resolving the visible
\* moves would have given other deltas
C7_Witness ==
    \E i \in Rounds :
        /\ \E s \in Sides : audit[i].shadow[s]
        /\ resolve_round(audit[i].visible.a, audit[i].visible.b) # audit[i].delta

\* the state view made of the four values the claim names
ViewOf(r, opp_visible, own_real, opp_bucket) ==
    [round |-> r, opponent_last_visible |-> opp_visible,
     self_last_real |-> own_real, opponent_deception_bucket |-> opp_bucket]

\* what side s did in the round before round i
VisibleBefore(i, s) == IF i = 1 THEN None ELSE audit[i - 1].visible[s]
RealBefore(i, s) == IF i = 1 THEN None ELSE audit[i - 1].real[s]

\* C8: the state view a side is passed is a function of the round index, the
\* opponent's last visible move, the side's own last real move and the
\* opponent's bucket label, and of nothing else: not of the opponent's token
\* count, its last real move or whether that move was shadowed.
C8_ViewHidesOpponent ==
    /\ \A i \in Rounds, s \in Sides :
          audit[i].state[s] = ViewOf(i, NameOrNone(VisibleBefore(i, Other(s))),
                                     NameOrNone(RealBefore(i, s)),
                                     deception_bucket(PoolBefore(i, Other(s))))
    /\ pc \in {"Shadow", "Resolve"} =>
          \A s \in Sides :
              state[s] = ViewOf(round_idx, NameOrNone(last_visible[Other(s)]),
                                NameOrNone(last_real[s]),
                                deception_bucket(PoolBefore(round_idx, Other(s))))

\* C8 witness: a view built after the opponent's move was shadowed and its
\* pool went from 2 to 1, both LOW
C8_Witness ==
    \E i \in Rounds, s \in Sides :
        /\ i > 1 /\ audit[i - 1].shadow[Other(s)]
        /\ audit[i - 1].visible[Other(s)] # audit[i - 1].real[Other(s)]
        /\ audit[i - 1].tok0[Other(s)] = 2 /\ audit[i].tok0[Other(s)] = 1
        /\ audit[i].state[s].opponent_deception_bucket = "LOW"

\* C9: a match that is not aborted runs rounds 1, 2, ..., R in that order
\* whatever the scores are, emits one round record per round in that order,
\* and produces its summary only after round R.
C9_ExactlyRRounds ==
    /\ \A i \in 1..Len(rounds_log) : rounds_log[i].round = i
    /\ pc = "NotStarted" => rounds_log = <<>>
    /\ pc \in {"Play", "Shadow", "Resolve"} =>
          (round_idx \in 1..ROUNDS /\ Len(rounds_log) = round_idx - 1)
    /\ pc \in {"Summary", "Completed", "MetaWritten"} => Len(rounds_log) = ROUNDS
    /\ summary_log # <<>> => pc \in {"Completed", "MetaWritten"}
    /\ pc # "Completed" \/ Len(summary_log) = 1

\* C9 witness: a completed match one side of which won every round
C9_Witness ==
    /\ pc = "Completed"
    /\ score.a = -ROUNDS /\ score.b = ROUNDS

\* C10: a play call that raises or does not return gives the side MOVES[0] as
\* its real move; a shadow-request call that raises or does not return gives
\* (False, None) and leaves the side's pool alone; no fault aborts the match,
\* which can take its next step from every state short of completion.
C10_FaultRecoveredLocally ==
    /\ \A i \in Rounds, s \in Sides :
          LET e == audit[i]
          IN  /\ e.play_end[s] # "ok" => e.real[s] = MOVES[1]
              /\ e.shadow_end[s] # "ok" =>
                    /\ e.req[s] = <<FALSE, None>>
                    /\ e.tokens[s] = PoolBefore(i, s)
                    /\ ~e.shadow[s] /\ e.drew[s] = 0
    /\ pc = "Shadow" => \A s \in Sides : play_end[s] # "ok" => real[s] = MOVES[1]
    /\ pc = "Failed" =>
          \E s \in Sides : \/ (play_end[s] = "ok" /\ ~IsDict(out[s]))
                           \/ (play_end[s] = "ok" /\ ~validate_move(real[s]))
                           \/ (shadow_end[s] = "ok" /\ ~IsPair(shadow_out[s]))
                           \/ (shadow_end[s] = "ok" /\ req[s][2] \notin Move \cup {None})
    /\ pc \in {"NotStarted", "Play", "Shadow", "Resolve", "Summary"} => ENABLED Next

\* C10 witness: a completed match in which side a's play call never returned
\* in any round and its shadow-request call raised
C10_Witness ==
    /\ pc = "Completed" /\ Len(audit) = ROUNDS
    /\ \A i \in Rounds : audit[i].play_end.a = "hang" /\ audit[i].real.a = MOVES[1]
    /\ \E i \in Rounds : audit[i].shadow_end.a = "raise"

\* C11: what the guard hands run_match always has the expected shape: when a
\* play call returns a value that is not a dict the guard hands back the
\* default result, when a shadow-request call returns a value that is not a
\* pair it hands back (False, None), so no malformed value reaches run_match
\* and none aborts the match.
C11_GuardDefaultsMalformedShape ==
    \A s \in Sides : IsDict(out[s]) /\ IsPair(shadow_out[s])

\* the play calls of round round_idx have been made
Played == pc # "NotStarted" /\ state.a.round = round_idx

\* the real move run_match reads out of what side s returned this round
Obtained(s) == Get(out[s], "real_move", MOVES[1])

\* C12: if the real move obtained for a side in round i is not a Move, the
\* match is aborted in round i: the resolver is not invoked, scores and pools
\* are those of the end of round i - 1, there is no round record for round i
\* and no summary.
C12_InvalidRealMoveAborts ==
    (Played /\ \E s \in Sides : IsDict(out[s]) /\ Obtained(s) \notin Move) =>
        /\ pc = "Failed"
        /\ Len(audit) = round_idx - 1
        /\ score = ScoreBefore(round_idx)
        /\ \A s \in Sides : tokens[s] = PoolBefore(round_idx, s)
        /\ Len(rounds_log) = round_idx - 1
        /\ summary_log = <<>>
        /\ metadata = NoFile /\ rpc = "NotStarted"

\* C12 witness: side a returns a dict whose real move is not a Move in round
\* 2, after winning round 1
C12_Witness ==
    /\ Played /\ round_idx = 2 /\ pc = "Failed"
    /\ IsDict(out.a) /\ Obtained("a") = NotAMove
    /\ score = [a |-> 1, b |-> -1]

\* the resolve_round calls of the harness
ResolveCalls == {i \in 1..Len(calls) : calls[i].fn = "resolve_round"}

\* C13: resolve_round never raises on two Moves; resolve(m, m) = (0, 0); for
\* a # b exactly one of them beats the other and the deltas are (+1, -1) when
\* a beats b and (-1, +1) when b beats a; the deltas sum to zero and
\* resolve(b, a) is resolve(a, b) with the signs swapped.
C13_ResolveTotalAntisymmetric ==
    \A i \in ResolveCalls :
        LET a == calls[i].args[1]
            b == calls[i].args[2]
            r == calls[i].ret
        IN  /\ r # <<>>
            /\ a = b => r = <<0, 0>>
            /\ a # b => /\ (b \in WIN_MAP[a]) # (a \in WIN_MAP[b])
                        /\ r = IF b \in WIN_MAP[a] THEN <<1, -1>> ELSE <<-1, 1>>
            /\ r[1] + r[2] = 0
            /\ \A j \in ResolveCalls :
                  calls[j].args = <<b, a>> => calls[j].ret = <<-r[1], -r[2]>>

\* C13 witness: a pair of different moves resolved in both orders
C13_Witness ==
    /\ Len(calls) = 2
    /\ calls[1] = [fn |-> "resolve_round", args |-> <<LIZARD, SPOCK>>, ret |-> <<1, -1>>]
    /\ calls[2] = [fn |-> "resolve_round", args |-> <<SPOCK, LIZARD>>, ret |-> <<-1, 1>>]

\* the unordered pairs of moves one of which beats the other
Covered == {{a, b} : a \in Move, b \in Move} \ {{m} : m \in Move}

\* C14: WIN_MAP is irreflexive, every move beats exactly two other moves and
\* loses to exactly two other moves, and each of the 10 unordered pairs of
\* different moves is decided exactly once (one beats the other, never both).
C14_WinMapIsTournament ==
    /\ DOMAIN WIN_MAP = Move
    /\ \A m \in Move :
          /\ m \notin WIN_MAP[m]
          /\ WIN_MAP[m] \subseteq Move
          /\ Cardinality(WIN_MAP[m]) = 2
          /\ Cardinality({x \in Move : m \in WIN_MAP[x]}) = 2
    /\ Cardinality(Covered) = 10
    /\ \A p \in Covered :
          Cardinality({<<a, b>> \in Move \X Move : p = {a, b} /\ b \in WIN_MAP[a]}) = 1
    /\ \A i \in ResolveCalls :
          calls[i].args[1] # calls[i].args[2] => calls[i].ret \in {<<1, -1>>, <<-1, 1>>}

\* C14 witness: a round decided by the entry of the second move's row
C14_Witness ==
    \E i \in ResolveCalls :
        /\ calls[i].args = <<SCISSORS, SPOCK>>
        /\ SCISSORS \in WIN_MAP[SPOCK]
        /\ calls[i].ret = <<-1, 1>>

\* the label the claim gives a token count
Classifies(label, t) ==
    /\ label = "HIGH" <=> t >= 40
    /\ label = "MEDIUM" <=> (20 <= t /\ t < 40)
    /\ label = "LOW" <=> (1 <= t /\ t < 20)
    /\ label = "EMPTY" <=> t = 0

\* C15: deception_bucket(t) is HIGH iff t >= 40, MEDIUM iff 20 <= t < 40, LOW
\* iff 1 <= t < 20 and EMPTY iff t = 0, for every t from 0 to the budget; and
\* the a_bucket and b_bucket of a round record are the labels of the sides'
\* pools after the round's deduction.
C15_BucketClassification ==
    /\ \A i \in 1..Len(calls) :
          calls[i].fn = "deception_bucket" => Classifies(calls[i].ret, calls[i].args[1])
    /\ \A i \in 1..Len(rounds_log) :
          /\ Classifies(rounds_log[i].a_bucket, audit[i].tokens.a)
          /\ Classifies(rounds_log[i].b_bucket, audit[i].tokens.b)

\* C15 witness: a round whose deduction takes a pool from 1 to 0, logged EMPTY
C15_Witness ==
    \E i \in 1..Len(rounds_log) :
        /\ audit[i].tok0.b = 1 /\ audit[i].tokens.b = 0
        /\ rounds_log[i].b_bucket = "EMPTY"

\* the write call that put the piece x in the file has not returned yet
InProgress(x) ==
    \E m \in DOMAIN workers : workers[m].pending = <<[piece |-> "tail", of |-> x.of]>>

\* every line of the file is the text of one record: it opens and closes
\* with the pieces of the same record (the last line may be one a write call
\* is still putting there)
WholeLines(file) ==
    \A k \in 1..Len(file) :
        IF file[k].piece = "head"
        THEN \/ k < Len(file) /\ file[k + 1] = [piece |-> "tail", of |-> file[k].of]
             \/ k = Len(file) /\ InProgress(file[k])
        ELSE k > 1 /\ file[k - 1] = [piece |-> "head", of |-> file[k].of]

\* the round records match m has in the file, in file order
RecordsOf(file, m) ==
    SelectSeq(file, LAMBDA x : x.piece = "head" /\ x.of.match = m)

\* the rounds match m has called log_round for
RoundsLogged(m) ==
    IF workers[m].pc = "queued" THEN 0 ELSE workers[m].round - 1

\* C17: with matches running in parallel on the pool, every line of the
\* round log and of the summary log is one complete record of one match, and
\* the round records of each match are in the file in that match's round
\* order, one for every round it logged.
C17_LogWritesSerialized ==
    /\ WholeLines(raw_file)
    /\ WholeLines(summary_file)
    /\ \A m \in DOMAIN workers :
          workers[m].pending = <<>> =>
              /\ Len(RecordsOf(raw_file, m)) = RoundsLogged(m)
              /\ \A j \in 1..Len(RecordsOf(raw_file, m)) :
                    RecordsOf(raw_file, m)[j].of.round = j

\* the deltas resolve_round gives the real moves of round record i
DeltaOf(i) ==
    resolve_round(move_from_name(rounds_log[i].a_real),
                  move_from_name(rounds_log[i].b_real))

\* the sum of the deltas of side n (1 for a, 2 for b) over records 1..i
RECURSIVE SumDelta(_, _)
SumDelta(i, n) == IF i = 0 THEN 0 ELSE SumDelta(i - 1, n) + DeltaOf(i)[n]

\* the number of records in which side s really played the move named n
RealCount(s, n) ==
    Cardinality({i \in 1..Len(rounds_log) : LogReal(rounds_log[i], s) = n})

\* the sum of the counts of a frequency map
RECURSIVE SumCounts(_, _)
SumCounts(f, i) ==
    IF i = 0 THEN 0 ELSE SumCounts(f, i - 1) + Get(f, MoveName[i], 0)

\* side a played the move named x and side b the move named y in every round
AlwaysPlayed(x, y) ==
    \A i \in 1..Len(rounds_log) : rounds_log[i].a_real = x /\ rounds_log[i].b_real = y

\* C18: the summary of a completed match has as final scores the sums over
\* rounds 1..R of the resolve deltas of the real moves, and as frequency maps
\* the counts of each side's real moves, which sum to R. If a played X in
\* every round, b a move that beats X, and the budget is zero, the scores are
\* (-R, +R) and the maps {X: R} and {beater: R}.
C18_SummaryCorrect ==
    Len(summary_log) > 0 =>
        LET sm == summary_log[1]
        IN  /\ \A k \in 1..Len(summary_log) : summary_log[k] = sm
            /\ Len(rounds_log) = ROUNDS
            /\ sm.score_a = SumDelta(ROUNDS, 1)
            /\ sm.score_b = SumDelta(ROUNDS, 2)
            /\ DOMAIN sm.moves_a \subseteq MoveNames
            /\ DOMAIN sm.moves_b \subseteq MoveNames
            /\ \A n \in MoveNames :
                  /\ Get(sm.moves_a, n, 0) = RealCount("a", n)
                  /\ Get(sm.moves_b, n, 0) = RealCount("b", n)
            /\ SumCounts(sm.moves_a, 5) = ROUNDS
            /\ SumCounts(sm.moves_b, 5) = ROUNDS
            /\ \A y \in Move : \A x \in WIN_MAP[y] :
                  (budget = 0 /\ AlwaysPlayed(MoveName[x], MoveName[y])) =>
                      /\ sm.score_a = -ROUNDS /\ sm.score_b = ROUNDS
                      /\ sm.moves_a = [n \in {MoveName[x]} |-> ROUNDS]
                      /\ sm.moves_b = [n \in {MoveName[y]} |-> ROUNDS]

\* C18 witness: with a budget of zero, a played SCISSORS and b ROCK in every
\* round and the summary is out
C18_Witness ==
    /\ budget = 0 /\ Len(summary_log) >= 1
    /\ AlwaysPlayed("SCISSORS", "ROCK")
    /\ summary_log[1].score_a = -ROUNDS
    /\ summary_log[1].moves_b = [n \in {"ROCK"} |-> ROUNDS]

\* the records among 1..i whose shadow-used flag for side s is set
LoggedFlags(i, s) ==
    Cardinality({j \in 1..i : LogShadow(MatchRounds[j], s)})

\* C19: after replaying rounds 1..i the validator's token count of each side
\* is the budget minus the number of records among 1..i whose logged
\* shadow-used flag for that side is true.
C19_ReplayTokensFollowLoggedFlags ==
    rpc \in {"Replaying", "Success"} =>
        \A s \in Sides : r_tokens[s] = budget - LoggedFlags(r_idx - 1, s)

\* C20: validate_match_replay never reports success when the metadata lacks
\* the bot identities, when the round log is absent or has no record of the
\* match's bot pair, when a record of the pair lacks a field, or when a
\* logged move name is not one of the five moves.
C20_MalformedInputIsFatal ==
    rpc = "Success" =>
        /\ metadata.exists
        /\ {"bot_a", "bot_b"} \subseteq DOMAIN metadata
        /\ log_present
        /\ MatchRounds # <<>>
        /\ \A i \in 1..Len(MatchRounds) :
              /\ RecordFields \subseteq DOMAIN MatchRounds[i]
              /\ \A k \in {"a_real", "b_real", "a_visible", "b_visible"} :
                    MatchRounds[i][k] \in MoveNames

\* C21: when a side requests a shadow with tokens left and its shadow move is
\* a value that is not a Move, the gate leaves the visible move equal to the
\* real move, spends no token, leaves the shadow flag false, and the match
\* goes on to resolve the round.
C21_InvalidShadowFallsThrough ==
    [][\A s \in Sides :
          (/\ pc = "Shadow" /\ pc' # "Shadow"
           /\ tokens[s] > 0
           /\ shadow_out'[s] = <<TRUE, NotAMove>>
           /\ IsPair(shadow_out'[Other(s)])) =>
              /\ pc' = "Resolve"
              /\ visible'[s] = real[s]
              /\ tokens'[s] = tokens[s]
              /\ ~shadow'[s]]_vars

\* C22: each side's single stream is advanced by every draw of that side's
\* move production and by every rejection draw, so the position from which
\* the side's move production of round i+1 draws lies after all the draws
\* the side made in rounds 1..i.
C22_StreamNeverRewound ==
    \A i \in Rounds, s \in Sides :
        audit[i].rng[s].pos =
            PosBefore(i, s) + audit[i].play_draws[s] + audit[i].drew[s]

\* C23: the state validate_match_replay passes to a side's move production
\* in round i (round index, opponent's last visible move, own last real
\* move, opponent's bucket label) equals the state run_match passed to that
\* side in round i of the logged match; the bucket label is the opponent's
\* bucket as it stood before round i.
C23_ReplayViewIsMatchView ==
    \A s \in Sides :
        r_state[s].round >= 1 => r_state[s] = audit[r_state[s].round].state[s]

\* the position the match's stream of side s had at the start of round i
\* (i may be one past the last round played)
MatchPosAt(i, s) == IF i = 1 THEN 0 ELSE audit[i - 1].rng[s].pos

\* C24: replay takes from a side's stream the draws the match took from it
\* (move production plus any rejection draw), so at the start of every round
\* replay's stream of the side is at the position the match's stream was.
C24_ReplayConsumesAsMatch ==
    (rpc = "Replaying" /\ r_idx <= Len(audit) + 1) =>
        \A s \in Sides : r_rng[s].pos = MatchPosAt(r_idx, s)

\* C25: for a completed match run in competition mode exactly one summary
\* record has been appended to the summary log, once the driver is done
\* with the match.
C25_SummaryLoggedOnce ==
    /\ pc = "Completed" => Len(summary_log) = 1
    /\ pc = "MetaWritten" => Len(summary_log) = 1

\* C26: once run_match has completed for a match started after
\* init_logging(competition=True), the replay metadata file
\* replay_<name_a>_vs_<name_b>.json naming bot_a and bot_b is on disk.
C26_ReplayMetaWritten ==
    pc = "Completed" =>
        /\ metadata.exists
        /\ metadata.bot_a = bot.a /\ metadata.bot_b = bot.b

\* C27: the streams a tournament match ran on are the ones derived from the
\* per-match seed strings attached to its summary, so two matches of the same
\* pair with different match indexes ran on different streams.
C27_MatchRunsOnLoggedSeeds ==
    /\ \A m \in PoolMatches :
          workers[m].pc = "returned" =>
              workers[m].rng = make_rng(workers[m].rng_seed_a, workers[m].rng_seed_b)
    /\ \A m \in PoolMatches, n \in PoolMatches :
          (/\ m # n
           /\ workers[m].pc # "queued" /\ workers[n].pc # "queued"
           /\ MatchesToRun[m][3] # MatchesToRun[n][3]) =>
              workers[m].rng # workers[n].rng

\* the round records so far whose shadow-used flag of side s is set
FlaggedRecords(s) ==
    Cardinality({i \in 1..Len(rounds_log) : LogShadow(rounds_log[i], s)})

\* C28: once the match has started, tokens_used + tokens left is the budget
\* for each side; after every round tokens_used is the number of round
\* records so far whose shadow-used flag for the side is true; and the
\* tokens-consumed counts of a summary never exceed the budget.
C28_TokenAccounting ==
    /\ pc # "NotStarted" =>
          \A s \in Sides : tokens_used[s] + tokens[s] = budget
    /\ pc \in {"Play", "Summary", "Completed", "MetaWritten"} =>
          \A s \in Sides : tokens_used[s] = FlaggedRecords(s)
    /\ \A k \in 1..Len(summary_log) :
          /\ summary_log[k].tokens_used_a = FlaggedRecords("a")
          /\ summary_log[k].tokens_used_b = FlaggedRecords("b")
          /\ summary_log[k].tokens_used_a <= budget
          /\ summary_log[k].tokens_used_b <= budget

\* C28 witness: a completed match in which a side had one shadow rejected and
\* then spent its whole pool of two
C28_Witness ==
    /\ pc = "Completed" /\ budget = 2
    /\ \E s \in Sides :
          /\ tokens_used[s] = 2 /\ tokens[s] = 0
          /\ \E i \in Rounds : audit[i].drew[s] = 1 /\ ~audit[i].shadow[s]

\* the records replay goes through hold more than one match of the pair
SeveralMatches ==
    \E i \in 1..Len(MatchRounds), j \in 1..Len(MatchRounds) :
        i # j /\ MatchRounds[i].round = MatchRounds[j].round

\* C29: when the round log holds several matches of the same ordered pair,
\* what validate_match_replay replays for the pair is one match's R records
\* in round order: the round index it passes to the strategies is the logged
\* round index of the record, and it replays no more than R records.
C29_ReplaysOneMatch ==
    (rpc \in {"Replaying", "Success", "Failed"} /\ r_idx >= 1 /\ SeveralMatches) =>
        /\ r_idx <= ROUNDS + 1
        /\ \A s \in Sides :
              r_state[s].round >= 1 =>
                  r_state[s].round = MatchRounds[r_state[s].round].round

\* tournament.py:131-133: the match classified for a bot by the sign of its
\* own score
BySign(own) ==
    IF own > 0 THEN "win" ELSE IF own < 0 THEN "loss" ELSE "draw"

\* match.py:161-169: the match classified for a bot by comparing the scores
ByComparison(own, opp) ==
    IF own > opp THEN "win" ELSE IF opp > own THEN "loss" ELSE "draw"

Abs(n) == IF n < 0 THEN -n ELSE n

\* C30: in every state score_a + score_b = 0 and |score_a| is at most the
\* number of rounds played, so the classification of the match for a bot by
\* the sign of its own score agrees with the comparison of the two scores,
\* and the match has one winner and one loser or is a draw for both.
C30_ZeroSum ==
    /\ score.a + score.b = 0
    /\ Abs(score.a) <= Len(audit)
    /\ \A s \in Sides :
          BySign(score[s]) = ByComparison(score[s], score[Other(s)])
    /\ {BySign(score.a), BySign(score.b)} \in {{"win", "loss"}, {"draw"}}
    /\ \A k \in 1..Len(summary_log) :
          summary_log[k].score_a + summary_log[k].score_b = 0

\* C30 witness: a completed match that side a won in every round, and so by
\* both classifications
C30_Witness ==
    /\ pc = "Completed"
    /\ score.a = ROUNDS /\ score.b = -ROUNDS
    /\ BySign(score.a) = "win" /\ ByComparison(score.b, score.a) = "loss"

====
